---- MODULE Spec2Model ----
(***************************************************************************)
(* Crypto tracker server: the data-refresh path (upstream fetch, current   *)
(* snapshot replace, history append) and the HTTP handlers around it.      *)
(*                                                                         *)
(* The repository holds the server in three listings:                      *)
(*   src/server/server.js          the deployed server (no governor),      *)
(*   src/README.md lines 115-485   a listing with a global retry counter,  *)
(*   src/README.md lines 487-912   a listing with the rate/retry governor  *)
(*                                 (lastFetchTime, fetchInProgress).       *)
(* Spec models server.js; SpecGov models the README's governor listing;    *)
(* SpecRead runs server.js's two read-only handlers (history, portfolio)   *)
(* on stored tables drawn from a bounded set.                              *)
(*                                                                         *)
(* Execution model: Node.js runs one callback at a time, so everything     *)
(* between two awaits of real I/O (HTTP call, timer, database operation)   *)
(* is one atomic action. A database operation takes effect and delivers    *)
(* its result in the step that completes it. Store reads never fail;       *)
(* store writes may fail at any time.                                      *)
(***************************************************************************)
EXTENDS Integers, Sequences, FiniteSets, TLC

VARIABLES
    now,                \* Date.now(), in milliseconds
    current,            \* the CurrentData collection, in insertion order
    history,            \* the HistoryData collection, in insertion order
    task,               \* the async invocations (cron callbacks, handlers)
    lastFetchTime,      \* README governor: let lastFetchTime
    fetchInProgress,    \* README governor: let fetchInProgress
    fetchRetryCount,    \* README retry listing: let fetchRetryCount
    lastSuccessAt       \* history variable: time of the last successful upstream response

vars == << now, current, history, task, lastFetchTime, fetchInProgress,
          fetchRetryCount, lastSuccessAt >>

----------------------------------------------------------------------------
(* Bounds of the model *)

NumTasks == 2
MaxTicks == 1
MaxHistoryBatches == 1

(* Program constants *)

MIN_FETCH_INTERVAL == 120000
maxRetries == 3

\* the clock is read in steps of TickMs
TickMs == 120 * 1000
\* Date.now() is far above MIN_FETCH_INTERVAL when the process starts, so a
\* lastFetchTime of 0 never denies the first fetch.
StartTime == 2 * MIN_FETCH_INTERVAL
MaxNow == StartTime + MaxTicks * TickMs
STALE_AFTER == 3600000
RETRY_DELAY == 10000
BACKOFF_BASE == 30000
LISTEN_DELAY == 2000
INIT_DELAY == 5000
INIT_HISTORY_DELAY == 10000

Tasks == 1..NumTasks
Never == 0 - 1

----------------------------------------------------------------------------
(* Upstream data: the coin market listing *)

RawCoin(id, name, symbol, price, cap, chg, rank) ==
    [ id |-> id, name |-> name, symbol |-> symbol, current_price |-> price,
      market_cap |-> cap, price_change_percentage_24h |-> chg,
      market_cap_rank |-> rank ]

\* Symbols are sequences of characters, as upstream sends them.
RespA == << RawCoin("bitcoin", "Bitcoin", <<"b","t","c">>, 50, 9, 2, 1),
            RawCoin("ethereum", "Ethereum", <<"e","t","h">>, 30, 4, -1, 2) >>
\* Another coin set, distinct ranks listed out of rank order.
RespB == << RawCoin("solana", "Solana", <<"S","o","l">>, 20, 5, 3, 2),
            RawCoin("bitcoin", "Bitcoin", <<"b","t","c">>, 51, 8, 1, 1) >>

UpstreamResponses == { RespA, RespB }
\* HTTP 429 (rate limited), a server failure (HTTP 500) and a client error
\* that no retry can mend (HTTP 400)
UpstreamErrors == { "429", "500", "400" }

LowerChars == << "b", "c", "e", "h", "l", "o", "s", "t" >>
UpperChars == << "B", "C", "E", "H", "L", "O", "S", "T" >>

toUpperCase(s) ==
    [ i \in DOMAIN s |->
        IF \E k \in DOMAIN LowerChars : LowerChars[k] = s[i]
        THEN UpperChars[CHOOSE k \in DOMAIN LowerChars : LowerChars[k] = s[i]]
        ELSE s[i] ]

----------------------------------------------------------------------------
(* The store: two collections *)

CoinIds(coll) == { coll[i].coinId : i \in DOMAIN coll }

RECURSIVE InsertSorted(_, _)
InsertSorted(d, s) ==
    IF s = << >> THEN << d >>
    ELSE IF d.rank < Head(s).rank THEN << d >> \o s
         ELSE << Head(s) >> \o InsertSorted(d, Tail(s))

RECURSIVE SortByRank(_)
\* .sort({ rank: 1 }): ascending rank, ties in insertion order
SortByRank(s) ==
    IF s = << >> THEN << >>
    ELSE InsertSorted(s[Len(s)], SortByRank(SubSeq(s, 1, Len(s) - 1)))

\* a find() without the sort; C10 must tell it from FindCurrent
FindCurrent_unsorted(coll) == coll

\* CurrentData.find().sort({ rank: 1 })
FindCurrent(coll) == SortByRank(coll)

\* CurrentData.deleteMany({})
DeleteMany(coll) == << >>

\* insertMany on a collection without the unique index; C7 must tell it from
\* InsertManyUnique
InsertMany_noIndex(coll, docs) == [ coll |-> coll \o docs, ok |-> TRUE ]

RECURSIVE InsertManyUnique(_, _)
\* CurrentData.insertMany(docs): ordered insert under the unique index on
\* coinId; stops at the first duplicate key, keeping the documents before it.
InsertManyUnique(coll, docs) ==
    IF docs = << >> THEN [ coll |-> coll, ok |-> TRUE ]
    ELSE IF Head(docs).coinId \in CoinIds(coll)
         THEN [ coll |-> coll, ok |-> FALSE ]
         ELSE InsertManyUnique(Append(coll, Head(docs)), Tail(docs))

\* an insertMany that drops what the collection held; C14 must tell it from
\* InsertManyHistory
InsertManyHistory_replacing(coll, docs) == docs

\* HistoryData.insertMany(docs): no unique index
InsertManyHistory(coll, docs) == coll \o docs

\* the map without toUpperCase(); C9 must tell it from formatCurrent
formatCurrent_keepCase(coinData, ts) ==
    [ i \in DOMAIN coinData |->
        [ coinId |-> coinData[i].id, name |-> coinData[i].name,
          symbol |-> coinData[i].symbol, price |-> coinData[i].current_price,
          marketCap |-> coinData[i].market_cap,
          change24h |-> coinData[i].price_change_percentage_24h,
          rank |-> coinData[i].market_cap_rank, timestamp |-> ts ] ]

\* updateCurrentData's coinData.map(...)
formatCurrent(coinData, ts) ==
    [ i \in DOMAIN coinData |->
        [ coinId |-> coinData[i].id, name |-> coinData[i].name,
          symbol |-> toUpperCase(coinData[i].symbol), price |-> coinData[i].current_price,
          marketCap |-> coinData[i].market_cap,
          change24h |-> coinData[i].price_change_percentage_24h,
          rank |-> coinData[i].market_cap_rank, timestamp |-> ts ] ]

\* storeHistoryData's coinData.map(...)
formatHistory(coinData, ts) ==
    [ i \in DOMAIN coinData |->
        [ coinId |-> coinData[i].id, name |-> coinData[i].name,
          symbol |-> toUpperCase(coinData[i].symbol), price |-> coinData[i].current_price,
          marketCap |-> coinData[i].market_cap,
          change24h |-> coinData[i].price_change_percentage_24h,
          timestamp |-> ts ] ]

----------------------------------------------------------------------------
(* Tasks *)

IdleTask ==
    [ kind |-> "none", pc |-> "idle", coinData |-> << >>, rows |-> << >>,
      res |-> "none", data |-> << >>, err |-> "none",
      \* locals of the README governor listing
      retryCount |-> 0, fetchNow |-> 0, wakeAt |-> 0, currentData |-> << >>,
      \* GET /api/history/:coinId: coinId, days and startDate
      query |-> << >>,
      \* history variables of the invocation
      calls |-> 0,            \* upstream calls issued by its current fetch
      only429 |-> TRUE,       \* every answer to them so far was a 429
      lastBackoff |-> 0,      \* the backoff waited after its latest failure, if a 429
      ret |-> "none",         \* how its updateCurrentData or storeHistoryData ended
      cleared |-> FALSE,      \* its deleteMany cleared a table that held rows
      refill |-> FALSE,       \* the table it cleared held this same input
      prev |-> << >>,         \* and read, in that case, as this sequence
      denied |-> "none" ]     \* why its fetch was skipped

NewTask(kind, pc) == [ IdleTask EXCEPT !.kind = kind, !.pc = pc ]

\* the invocation ends: its locals go, its outcome stays until it is collected
Done(rec, res, data, err) ==
    [ rec EXCEPT !.pc = "done", !.res = res, !.data = data, !.err = err,
                 !.coinData = << >>, !.rows = << >>, !.query = << >>,
                 !.retryCount = 0, !.fetchNow = 0, !.wakeAt = 0,
                 !.currentData = << >>, !.calls = 0, !.denied = "none",
                 !.only429 = TRUE, !.lastBackoff = 0,
                 !.cleared = FALSE, !.prev = << >> ]

\* a document without its timestamp
StripTs(d) == [ f \in DOMAIN d \ { "timestamp" } |-> d[f] ]
StripAll(s) == [ i \in DOMAIN s |-> StripTs(s[i]) ]

\* two collections hold the same documents, timestamps and order aside
SameDocs(a, b) ==
    /\ Len(a) = Len(b)
    /\ { StripTs(a[i]) : i \in DOMAIN a } = { StripTs(b[i]) : i \in DOMAIN b }

FetchingPcs == { "fetch", "histFetch" }

\* the upstream calls outstanding
InFlight == { t \in Tasks : task[t].pc \in FetchingPcs }

\* the refreshes that have cleared the table and not yet filled it
MidReplace == { u \in Tasks : task[u].pc = "insertMany" }

\* new invocations take the lowest free slot
Idle(t) ==
    /\ task[t].pc = "idle"
    /\ \A u \in Tasks : u < t => task[u].pc # "idle"

gov == << lastFetchTime, fetchInProgress, fetchRetryCount >>

----------------------------------------------------------------------------
(* src/server/server.js *)

\* fetchCoinGeckoData: issue the axios.get
fetchCoinGeckoData(rec, pc) == [ rec EXCEPT !.pc = pc, !.calls = 1 ]

\* the history rows an earlier run of the server has left in the database
OldHistory == formatHistory(RespA, StartTime - TickMs)

\* The process has just started listening: app.listen's callback has called
\* initializeData, whose updateCurrentData awaits the first fetch. The
\* database may hold the rows of an earlier run.
Init ==
    /\ now = StartTime
    /\ current \in { << >>,
                     formatCurrent(RespA, StartTime - TickMs),
                     formatCurrent(RespA, StartTime - STALE_AFTER - TickMs) }
    /\ history \in { << >>, OldHistory }
    /\ task = [ t \in Tasks |->
                  IF t = 1 THEN fetchCoinGeckoData(NewTask("init", "idle"), "fetch")
                  ELSE IdleTask ]
    /\ lastFetchTime = 0
    /\ fetchInProgress = FALSE
    /\ fetchRetryCount = 0
    /\ lastSuccessAt = Never

\* time passes
Tick ==
    /\ now < MaxNow
    /\ now' = now + TickMs
    /\ UNCHANGED << current, history, task, gov, lastSuccessAt >>

\* updateCurrentData returns formattedData to its caller
updateCurrentData_returns(rec, rows) ==
    LET r == [ rec EXCEPT !.ret = "returned" ] IN
    CASE rec.kind = "cronUpdate" -> Done(r, "ok", << >>, "none")
      [] rec.kind = "init"       ->
             fetchCoinGeckoData([ r EXCEPT !.coinData = << >>, !.rows = << >>,
                                           !.cleared = FALSE, !.refill = FALSE,
                                           !.prev = << >> ],
                                "histFetch")
      [] rec.kind = "getCoins"   -> Done(r, "200", rows, "none")

\* The cron callback awaits updateCurrentData with no try/catch, so its
\* promise rejects. What becomes of it is up to node-cron, which is not part
\* of the repository: a scheduler that observes the promise reports a failed
\* task, one that drops it leaves an unhandled rejection.
CronRejection == { "taskFailed", "unhandledRejection" }

\* updateCurrentData rethrows; the cron callback has no try/catch around it,
\* initializeData logs, GET /api/coins answers 500
updateCurrentData_throws(rec, err, rejection) ==
    LET r == [ rec EXCEPT !.ret = "threw" ] IN
    CASE rec.kind = "cronUpdate" -> Done(r, rejection, << >>, err)
      [] rec.kind = "init"       -> Done(r, "ok", << >>, "none")
      [] rec.kind = "getCoins"   -> Done(r, "500", << >>, err)

\* a storeHistoryData whose catch rethrows; C13 must tell it from
\* storeHistoryData_returns
storeHistoryData_rethrows(rec) ==
    CASE rec.kind = "postHistory" -> Done(rec, "500", << >>, "store")
      [] OTHER                    -> Done(rec, "unhandledRejection", << >>, "store")

\* storeHistoryData returns (it swallows every error)
storeHistoryData_returns(rec) ==
    CASE rec.kind = "postHistory" -> Done(rec, "200", << >>, "none")
      [] OTHER                    -> Done(rec, "ok", << >>, "none")

\* cron.schedule('*/30 * * * *'): await updateCurrentData()
CronUpdate(t) ==
    /\ Idle(t)
    /\ task' = [ task EXCEPT ![t] = fetchCoinGeckoData(NewTask("cronUpdate", "idle"), "fetch") ]
    /\ UNCHANGED << now, current, history, gov, lastSuccessAt >>

\* cron.schedule('0 * * * *'): await storeHistoryData()
CronHistory(t) ==
    /\ Idle(t)
    /\ task' = [ task EXCEPT ![t] = fetchCoinGeckoData(NewTask("cronHistory", "idle"), "histFetch") ]
    /\ UNCHANGED << now, current, history, gov, lastSuccessAt >>

\* GET /api/coins arrives: CurrentData.find().sort({ rank: 1 })
GetCoins(t) ==
    /\ Idle(t)
    /\ task' = [ task EXCEPT ![t] = NewTask("getCoins", "coinsFind") ]
    /\ UNCHANGED << now, current, history, gov, lastSuccessAt >>

\* GET /api/coins: the find completes; an empty table triggers updateCurrentData
CoinsFindDone(t) ==
    /\ task[t].pc = "coinsFind"
    /\ LET currentData == FindCurrent(current) IN
         task' = [ task EXCEPT ![t] =
                     IF Len(currentData) = 0
                     THEN fetchCoinGeckoData(@, "fetch")
                     ELSE Done(@, "200", currentData, "none") ]
    /\ UNCHANGED << now, current, history, gov, lastSuccessAt >>

\* POST /api/history arrives: await storeHistoryData()
PostHistory(t) ==
    /\ Idle(t)
    /\ task' = [ task EXCEPT ![t] = fetchCoinGeckoData(NewTask("postHistory", "idle"), "histFetch") ]
    /\ UNCHANGED << now, current, history, gov, lastSuccessAt >>

\* a GET /api/portfolio that calls the refresh before it reads; C27 must
\* tell it from GetPortfolio
GetPortfolio_refreshing(t) ==
    /\ Idle(t)
    /\ task' = [ task EXCEPT ![t] = fetchCoinGeckoData(NewTask("getPortfolio", "idle"), "fetch") ]
    /\ UNCHANGED << now, current, history, gov, lastSuccessAt >>

\* GET /api/portfolio arrives: CurrentData.find().sort({ rank: 1 })
GetPortfolio(t) ==
    /\ Idle(t)
    /\ task' = [ task EXCEPT ![t] = NewTask("getPortfolio", "portfolioFind") ]
    /\ UNCHANGED << now, current, history, gov, lastSuccessAt >>

\* a portfolio that lists every coin; C18 must tell it from Slice6
Slice6_all(s) == s

\* currentData.slice(0, 6)
Slice6(s) == SubSeq(s, 1, IF Len(s) < 6 THEN Len(s) ELSE 6)

RECURSIVE SumMarketCap(_)
\* currentData.reduce((sum, coin) => sum + coin.marketCap, 0)
SumMarketCap(s) == IF s = << >> THEN 0 ELSE Head(s).marketCap + SumMarketCap(Tail(s))

RECURSIVE SumChange24h(_)
\* currentData.reduce((sum, coin) => sum + coin.change24h, 0)
SumChange24h(s) == IF s = << >> THEN 0 ELSE Head(s).change24h + SumChange24h(Tail(s))

\* a JavaScript number that is the integer n
JsNumber(n) == [ nan |-> FALSE, inf |-> FALSE, num |-> n, den |-> 1 ]

\* the JavaScript division a / b of two integers: the fraction a/b, NaN for
\* 0 / 0 (res.json sends it as null) and an infinity for a / 0
JsDivide(a, b) ==
    IF b # 0 THEN [ nan |-> FALSE, inf |-> FALSE, num |-> a, den |-> b ]
    ELSE [ nan |-> (a = 0), inf |-> (a # 0), num |-> a, den |-> 0 ]

\* the fields GET /api/portfolio keeps of a coin
portfolioCoin(coin) ==
    [ name |-> coin.name, symbol |-> coin.symbol, price |-> coin.price,
      change24h |-> coin.change24h ]

\* the data of GET /api/portfolio's response
portfolioData(currentData) ==
    [ totalValue |-> SumMarketCap(currentData),
      avgChange |-> JsDivide(SumChange24h(currentData), Len(currentData)),
      coins |-> [ i \in DOMAIN Slice6(currentData) |-> portfolioCoin(currentData[i]) ] ]

\* GET /api/portfolio: the find completes and the response is sent
PortfolioFindDone(t) ==
    /\ task[t].pc = "portfolioFind"
    /\ task' = [ task EXCEPT ![t] = Done(@, "200", portfolioData(FindCurrent(current)), "none") ]
    /\ UNCHANGED << now, current, history, gov, lastSuccessAt >>

\* updateCurrentData: axios.get resolves; CurrentData.deleteMany({}) is issued
FetchReturns(t, resp) ==
    /\ task[t].pc = "fetch"
    /\ task' = [ task EXCEPT ![t] = [ @ EXCEPT !.coinData = resp, !.pc = "deleteMany" ] ]
    /\ lastSuccessAt' = now
    /\ UNCHANGED << now, current, history, gov >>

\* fetchCoinGeckoData's catch: console.error, then throw error
fetchCaught(rec, err) == [ rec EXCEPT !.pc = "throw", !.err = err ]

\* updateCurrentData: axios.get rejects; fetchCoinGeckoData and
\* updateCurrentData both rethrow
FetchThrows(t, err) ==
    /\ task[t].pc = "fetch"
    /\ IF fetchCaught(task[t], err).pc = "throw"
       THEN \E rejection \in CronRejection :
              task' = [ task EXCEPT ![t] = updateCurrentData_throws(@, err, rejection) ]
       ELSE task' = [ task EXCEPT ![t] = fetchCaught(task[t], err) ]
    /\ UNCHANGED << now, current, history, gov, lastSuccessAt >>

\* updateCurrentData: deleteMany completes; formattedData is built and
\* CurrentData.insertMany(formattedData) is issued
DeleteManyDone(t) ==
    /\ task[t].pc = "deleteMany"
    /\ current' = DeleteMany(current)
    /\ task' = [ task EXCEPT ![t] =
                   [ task[t] EXCEPT
                       !.cleared = (current # << >>),
                       !.refill = SameDocs(current, formatCurrent(task[t].coinData, now)),
                       !.prev = IF SameDocs(current, formatCurrent(task[t].coinData, now))
                                THEN StripAll(FindCurrent(current)) ELSE << >>,
                       !.rows = formatCurrent(task[t].coinData, now),
                       !.pc = "insertMany" ] ]
    /\ UNCHANGED << now, history, gov, lastSuccessAt >>

\* updateCurrentData: insertMany completes, or fails on a duplicate coinId
InsertManyDone(t) ==
    /\ task[t].pc = "insertMany"
    /\ LET r == InsertManyUnique(current, task[t].rows) IN
         /\ current' = r.coll
         /\ \E rejection \in CronRejection :
              task' = [ task EXCEPT ![t] =
                          IF r.ok
                          THEN updateCurrentData_returns(task[t], task[t].rows)
                          ELSE updateCurrentData_throws(task[t], "E11000", rejection) ]
    /\ UNCHANGED << now, history, gov, lastSuccessAt >>

\* updateCurrentData: deleteMany or insertMany fails in the store
CurrentWriteFails(t) ==
    /\ task[t].pc \in { "deleteMany", "insertMany" }
    /\ \E rejection \in CronRejection :
         task' = [ task EXCEPT ![t] = updateCurrentData_throws(@, "store", rejection) ]
    /\ UNCHANGED << now, current, history, gov, lastSuccessAt >>

\* storeHistoryData: axios.get resolves; historyData is built and
\* HistoryData.insertMany(historyData) is issued
HistFetchReturns(t, resp) ==
    /\ task[t].pc = "histFetch"
    /\ task' = [ task EXCEPT ![t] =
                   [ @ EXCEPT !.rows = formatHistory(resp, now),
                              !.pc = "histInsert" ] ]
    /\ lastSuccessAt' = now
    /\ UNCHANGED << now, current, history, gov >>

\* storeHistoryData: axios.get rejects; the catch logs and returns
HistFetchThrows(t, err) ==
    /\ task[t].pc = "histFetch"
    /\ task' = [ task EXCEPT ![t] =
                   IF fetchCaught(task[t], err).pc = "throw"
                   THEN storeHistoryData_returns([ task[t] EXCEPT !.ret = "swallowed" ])
                   ELSE fetchCaught(task[t], err) ]
    /\ UNCHANGED << now, current, history, gov, lastSuccessAt >>

\* this run of the server stores at most MaxHistoryBatches batches of history
HistoryHasRoom(rows) ==
    Cardinality({ i \in DOMAIN history : history[i].timestamp >= StartTime }) + Len(rows)
      <= MaxHistoryBatches * Len(RespA)

\* a capture that also clears the current table; C28 must tell it from
\* HistInsertDone
HistInsertDone_clearing(t) ==
    /\ task[t].pc = "histInsert"
    /\ HistoryHasRoom(task[t].rows)
    /\ history' = InsertManyHistory(history, task[t].rows)
    /\ current' = DeleteMany(current)
    /\ task' = [ task EXCEPT ![t] = storeHistoryData_returns([ task[t] EXCEPT !.ret = "stored" ]) ]
    /\ UNCHANGED << now, gov, lastSuccessAt >>

\* storeHistoryData: insertMany completes
HistInsertDone(t) ==
    /\ task[t].pc = "histInsert"
    /\ HistoryHasRoom(task[t].rows)
    /\ history' = InsertManyHistory(history, task[t].rows)
    /\ task' = [ task EXCEPT ![t] = storeHistoryData_returns([ task[t] EXCEPT !.ret = "stored" ]) ]
    /\ UNCHANGED << now, current, gov, lastSuccessAt >>

\* a storeHistoryData whose catch passes a store error on to its caller;
\* C32 must tell it from HistInsertFails
HistInsertFails_rethrows(t) ==
    /\ task[t].pc = "histInsert"
    /\ task' = [ task EXCEPT ![t] = storeHistoryData_rethrows([ task[t] EXCEPT !.ret = "swallowed" ]) ]
    /\ UNCHANGED << now, current, history, gov, lastSuccessAt >>

\* storeHistoryData: insertMany fails in the store; the catch logs and returns
HistInsertFails(t) ==
    /\ task[t].pc = "histInsert"
    /\ task' = [ task EXCEPT ![t] = storeHistoryData_returns([ task[t] EXCEPT !.ret = "swallowed" ]) ]
    /\ UNCHANGED << now, current, history, gov, lastSuccessAt >>

\* the response has been sent, or the callback has ended
Finish(t) ==
    /\ task[t].pc = "done"
    /\ task' = [ task EXCEPT ![t] = IdleTask ]
    /\ UNCHANGED << now, current, history, gov, lastSuccessAt >>

Next ==
    \/ Tick
    \/ \E t \in Tasks : CronUpdate(t)
    \/ \E t \in Tasks : CronHistory(t)
    \/ \E t \in Tasks : GetCoins(t)
    \/ \E t \in Tasks : CoinsFindDone(t)
    \/ \E t \in Tasks : PostHistory(t)
    \/ \E t \in Tasks : GetPortfolio(t)
    \/ \E t \in Tasks : PortfolioFindDone(t)
    \/ \E t \in Tasks, resp \in UpstreamResponses : FetchReturns(t, resp)
    \/ \E t \in Tasks, err \in UpstreamErrors : FetchThrows(t, err)
    \/ \E t \in Tasks : DeleteManyDone(t)
    \/ \E t \in Tasks : InsertManyDone(t)
    \/ \E t \in Tasks : CurrentWriteFails(t)
    \/ \E t \in Tasks, resp \in UpstreamResponses : HistFetchReturns(t, resp)
    \/ \E t \in Tasks, err \in UpstreamErrors : HistFetchThrows(t, err)
    \/ \E t \in Tasks : HistInsertDone(t)
    \/ \E t \in Tasks : HistInsertFails(t)
    \/ \E t \in Tasks : Finish(t)

Spec == Init /\ [][Next]_vars

----------------------------------------------------------------------------
(* src/README.md, lines 487-912: the listing with the governor *)

RECURSIVE Pow2(_)
Pow2(n) == IF n = 0 THEN 1 ELSE 2 * Pow2(n - 1)

\* fetchCoinGeckoData without its second check; C3 must tell it from tryAcquire
tryAcquire_withoutFlag ==
    IF now - lastFetchTime < MIN_FETCH_INTERVAL THEN "TooSoon" ELSE "Permit"

\* fetchCoinGeckoData's two checks before it calls upstream
tryAcquire ==
    IF now - lastFetchTime < MIN_FETCH_INTERVAL THEN "TooSoon"
    ELSE IF fetchInProgress THEN "AlreadyInFlight"
    ELSE "Permit"

\* a backoff that does not grow; C6 must tell it from backoffDelay
backoffDelay_constant(retryCount) == BACKOFF_BASE

\* delay(30000 * Math.pow(2, retryCount - 1))
backoffDelay(retryCount) == BACKOFF_BASE * Pow2(retryCount - 1)

\* a loop that allows one retry only; C23 must tell it from mayRetry
mayRetry_once(retryCount) == retryCount < 2

\* while (retryCount < maxRetries)
mayRetry(retryCount) == retryCount < maxRetries

\* a timer set for wakeAt may have fired by the clock reading now
TimerFired(rec) == rec.wakeAt < now + TickMs

Sleep(rec, pc, ms) == [ rec EXCEPT !.pc = pc, !.wakeAt = now + ms ]

\* setTimeout(..., 2000) in app.listen's callback is pending
GovInit ==
    /\ now = StartTime
    /\ current \in { << >>,
                     formatCurrent(RespA, StartTime - TickMs),
                     formatCurrent(RespA, StartTime - STALE_AFTER - TickMs) }
    /\ history = << >>
    /\ task = [ t \in Tasks |->
                  IF t = 1 THEN Sleep(NewTask("init", "idle"), "listenTimer", LISTEN_DELAY)
                  ELSE IdleTask ]
    /\ lastFetchTime = 0
    /\ fetchInProgress = FALSE
    /\ fetchRetryCount = 0
    /\ lastSuccessAt = Never

GovTick ==
    /\ now < MaxNow
    /\ now' = now + TickMs
    /\ UNCHANGED << current, history, task, gov, lastSuccessAt >>

\* updateCurrentData returns rows (new or existing) to its caller
govUpdate_returns(rec, rows) ==
    LET r == [ rec EXCEPT !.ret = "returned", !.coinData = << >>, !.rows = << >>,
                          !.calls = 0, !.only429 = TRUE, !.lastBackoff = 0,
                          !.cleared = FALSE, !.refill = FALSE, !.prev = << >> ] IN
    CASE rec.kind = "cronUpdate" -> Done(r, "ok", << >>, "none")
      [] rec.kind = "init"       -> Sleep(r, "initHistoryDelay", INIT_HISTORY_DELAY)
      [] rec.kind = "getCoins"   -> Done(r, "200", rows, "none")

\* updateCurrentData throws: the cron callback and initializeData log it,
\* GET /api/coins answers with the rows it read, or 500 if it read none
govUpdate_throws(rec, err) ==
    LET r == [ rec EXCEPT !.ret = "threw", !.coinData = << >>, !.rows = << >>,
                          !.calls = 0, !.only429 = TRUE, !.lastBackoff = 0,
                          !.cleared = FALSE, !.refill = FALSE, !.prev = << >> ] IN
    CASE rec.kind = "cronUpdate" -> Done(r, "ok", << >>, "none")
      [] rec.kind = "init"       -> Sleep(r, "initHistoryDelay", INIT_HISTORY_DELAY)
      [] rec.kind = "getCoins"   ->
             IF Len(rec.currentData) = 0 THEN Done(r, "500", << >>, err)
             ELSE Done(r, "200", rec.currentData, "none")

\* fetchCoinGeckoData is entered by updateCurrentData (inUpdate) or by
\* storeHistoryData: skipped with null, or the flag is taken and the first
\* axios.get is issued
govFetchCall(rec, inUpdate) ==
    IF tryAcquire = "Permit"
    THEN [ rec EXCEPT !.pc = IF inUpdate THEN "fetch" ELSE "histFetch",
                      !.retryCount = 0, !.fetchNow = now, !.calls = 1,
                      !.only429 = TRUE, !.lastBackoff = 0, !.denied = "none" ]
    ELSE IF inUpdate
         \* return await CurrentData.find().sort({ rank: 1 })
         THEN [ rec EXCEPT !.pc = "existingFind", !.calls = 0, !.denied = tryAcquire ]
         \* storeHistoryData returns without storing
         ELSE storeHistoryData_returns([ rec EXCEPT !.calls = 0, !.denied = tryAcquire,
                                                    !.ret = "skipped" ])

GovCall(t, rec, inUpdate) ==
    /\ task' = [ task EXCEPT ![t] = govFetchCall(rec, inUpdate) ]
    /\ fetchInProgress' = (fetchInProgress \/ tryAcquire = "Permit")
    /\ UNCHANGED << lastFetchTime, fetchRetryCount >>

\* cron.schedule('0 */2 * * *'): try { await updateCurrentData() }
GovCronUpdate(t) ==
    /\ Idle(t)
    /\ GovCall(t, NewTask("cronUpdate", "idle"), TRUE)
    /\ UNCHANGED << now, current, history, lastSuccessAt >>

\* cron.schedule('0 */4 * * *'): try { await storeHistoryData() }
GovCronHistory(t) ==
    /\ Idle(t)
    /\ GovCall(t, NewTask("cronHistory", "idle"), FALSE)
    /\ UNCHANGED << now, current, history, lastSuccessAt >>

\* POST /api/history arrives
GovPostHistory(t) ==
    /\ Idle(t)
    /\ GovCall(t, NewTask("postHistory", "idle"), FALSE)
    /\ UNCHANGED << now, current, history, lastSuccessAt >>

\* the 2 s timer of app.listen fires: initializeData starts with delay(5000)
GovListenTimer(t) ==
    /\ task[t].pc = "listenTimer"
    /\ TimerFired(task[t])
    /\ task' = [ task EXCEPT ![t] = Sleep(@, "initDelay", INIT_DELAY) ]
    /\ UNCHANGED << now, current, history, gov, lastSuccessAt >>

\* initializeData: delay(5000) is over; try { await updateCurrentData() }
GovInitUpdate(t) ==
    /\ task[t].pc = "initDelay"
    /\ TimerFired(task[t])
    /\ GovCall(t, task[t], TRUE)
    /\ UNCHANGED << now, current, history, lastSuccessAt >>

\* initializeData: delay(10000) is over; try { await storeHistoryData() }
GovInitHistory(t) ==
    /\ task[t].pc = "initHistoryDelay"
    /\ TimerFired(task[t])
    /\ GovCall(t, task[t], FALSE)
    /\ UNCHANGED << now, current, history, lastSuccessAt >>

\* GET /api/coins: the find completes; no rows, or rows older than an hour,
\* trigger updateCurrentData
GovCoinsFindDone(t) ==
    /\ task[t].pc = "coinsFind"
    /\ LET currentData == FindCurrent(current) IN
         IF Len(currentData) = 0 \/ now - currentData[1].timestamp > STALE_AFTER
         THEN GovCall(t, [ task[t] EXCEPT !.currentData = currentData ], TRUE)
         ELSE /\ task' = [ task EXCEPT ![t] = Done(@, "200", currentData, "none") ]
              /\ UNCHANGED gov
    /\ UNCHANGED << now, current, history, lastSuccessAt >>

\* the data of GET /api/portfolio's response, with the empty table answered
\* apart
govPortfolioData(currentData) ==
    IF Len(currentData) = 0
    THEN [ totalValue |-> 0, avgChange |-> JsNumber(0), coins |-> << >> ]
    ELSE portfolioData(currentData)

\* GET /api/portfolio: the find completes and the response is sent
GovPortfolioFindDone(t) ==
    /\ task[t].pc = "portfolioFind"
    /\ task' = [ task EXCEPT ![t] = Done(@, "200", govPortfolioData(FindCurrent(current)), "none") ]
    /\ UNCHANGED << now, current, history, gov, lastSuccessAt >>

\* a fetch that leaves the flag as it is on its way out; C20 must tell it
\* from releasePermit
releasePermit_leaked == fetchInProgress

\* finally { fetchInProgress = false }
releasePermit == FALSE

\* axios.get resolves: lastFetchTime = now (the reading taken on entry), the
\* finally block clears the flag, and the caller goes on with the data
GovFetchReturns(t, resp) ==
    /\ task[t].pc \in FetchingPcs
    /\ lastFetchTime' = task[t].fetchNow
    /\ fetchInProgress' = releasePermit
    /\ UNCHANGED fetchRetryCount
    /\ task' = [ task EXCEPT ![t] =
                   IF task[t].pc = "fetch"
                   THEN [ task[t] EXCEPT !.coinData = resp, !.pc = "deleteMany" ]
                   ELSE [ task[t] EXCEPT !.rows = formatHistory(resp, now),
                                         !.pc = "histInsert" ] ]
    /\ UNCHANGED << now, current, history, lastSuccessAt >>

\* a catch block without its retryCount++; C25 must tell it from
\* govFetchCaught
govFetchCaught_noIncrement(rec, err) ==
    LET waitPc == IF rec.pc = "fetch" THEN "backoff" ELSE "histBackoff"
        r == [ rec EXCEPT !.err = err ] IN
    IF err = "429" THEN Sleep(r, waitPc, BACKOFF_BASE)
    ELSE Sleep(r, waitPc, RETRY_DELAY)

\* what fetchCoinGeckoData does when axios.get rejects: retryCount++, then
\* wait (429: exponential backoff; otherwise 10 s if a retry is left) or throw
govFetchCaught(rec, err) ==
    LET n == rec.retryCount + 1
        waitPc == IF rec.pc = "fetch" THEN "backoff" ELSE "histBackoff"
        r == [ rec EXCEPT !.retryCount = n, !.err = err,
                          !.only429 = (rec.only429 /\ err = "429"),
                          !.lastBackoff = IF err = "429" THEN backoffDelay(n) ELSE 0 ] IN
    IF err = "429" THEN Sleep(r, waitPc, backoffDelay(n))
    ELSE IF mayRetry(n) THEN Sleep(r, waitPc, RETRY_DELAY)
    ELSE [ r EXCEPT !.pc = "throw" ]

\* fetchCoinGeckoData throws to its caller, the flag cleared by finally:
\* updateCurrentData reads the existing rows, storeHistoryData logs
govFetchThrows(rec, inUpdate, err) ==
    IF inUpdate THEN [ rec EXCEPT !.pc = "fallbackFind", !.err = err ]
    ELSE storeHistoryData_returns([ rec EXCEPT !.ret = "swallowed" ])

\* a catch block that records the attempt's time as if it had succeeded; C22
\* must tell it from failedFetchTime
failedFetchTime_stamped(rec) == rec.fetchNow

\* the catch block, the delays and the throws assign nothing to lastFetchTime
failedFetchTime(rec) == lastFetchTime

\* axios.get rejects
GovFetchFails(t, err) ==
    /\ task[t].pc \in FetchingPcs
    /\ LET r == govFetchCaught(task[t], err) IN
         IF r.pc = "throw"
         THEN /\ task' = [ task EXCEPT ![t] = govFetchThrows(r, task[t].pc = "fetch", err) ]
              /\ fetchInProgress' = releasePermit
         ELSE /\ task' = [ task EXCEPT ![t] = r ]
              /\ UNCHANGED fetchInProgress
    /\ lastFetchTime' = failedFetchTime(task[t])
    /\ UNCHANGED << now, current, history, fetchRetryCount, lastSuccessAt >>

\* the delay is over: the loop issues the next axios.get, or it has ended and
\* Error('Max retries exceeded') is thrown
GovDelayDone(t) ==
    /\ task[t].pc \in { "backoff", "histBackoff" }
    /\ TimerFired(task[t])
    /\ IF mayRetry(task[t].retryCount)
       THEN /\ task' = [ task EXCEPT ![t] =
                           [ task[t] EXCEPT
                               !.pc = IF task[t].pc = "backoff" THEN "fetch" ELSE "histFetch",
                               !.calls = task[t].calls + 1 ] ]
            /\ UNCHANGED fetchInProgress
       ELSE /\ task' = [ task EXCEPT ![t] =
                           govFetchThrows(task[t], task[t].pc = "backoff", "MaxRetriesExceeded") ]
            /\ fetchInProgress' = releasePermit
    /\ lastFetchTime' = failedFetchTime(task[t])
    /\ UNCHANGED << now, current, history, fetchRetryCount, lastSuccessAt >>

\* updateCurrentData after a skipped fetch: the find completes and the
\* existing rows are returned
GovExistingFindDone(t) ==
    /\ task[t].pc = "existingFind"
    /\ task' = [ task EXCEPT ![t] = govUpdate_returns(task[t], FindCurrent(current)) ]
    /\ UNCHANGED << now, current, history, gov, lastSuccessAt >>

\* updateCurrentData's catch: the find completes; existing rows are returned,
\* and without any the error is rethrown
GovFallbackFindDone(t) ==
    /\ task[t].pc = "fallbackFind"
    /\ LET existingData == FindCurrent(current) IN
         task' = [ task EXCEPT ![t] =
                     IF Len(existingData) > 0
                     THEN govUpdate_returns([ task[t] EXCEPT !.ret = "fellBack" ], existingData)
                     ELSE govUpdate_throws(task[t], task[t].err) ]
    /\ UNCHANGED << now, current, history, gov, lastSuccessAt >>

\* updateCurrentData: insertMany completes, or fails on a duplicate coinId
GovInsertManyDone(t) ==
    /\ task[t].pc = "insertMany"
    /\ LET r == InsertManyUnique(current, task[t].rows) IN
         /\ current' = r.coll
         /\ task' = [ task EXCEPT ![t] =
                        IF r.ok
                        THEN govUpdate_returns(task[t], task[t].rows)
                        ELSE [ task[t] EXCEPT !.pc = "fallbackFind", !.err = "E11000" ] ]
    /\ UNCHANGED << now, history, gov, lastSuccessAt >>

\* updateCurrentData: deleteMany or insertMany fails in the store
GovCurrentWriteFails(t) ==
    /\ task[t].pc \in { "deleteMany", "insertMany" }
    /\ task' = [ task EXCEPT ![t] = [ @ EXCEPT !.pc = "fallbackFind", !.err = "store" ] ]
    /\ UNCHANGED << now, current, history, gov, lastSuccessAt >>

GovNext ==
    \/ GovTick
    \/ \E t \in Tasks : GovCronUpdate(t)
    \/ \E t \in Tasks : GovCronHistory(t)
    \/ \E t \in Tasks : GovPostHistory(t)
    \/ \E t \in Tasks : GovListenTimer(t)
    \/ \E t \in Tasks : GovInitUpdate(t)
    \/ \E t \in Tasks : GovInitHistory(t)
    \/ \E t \in Tasks : GetCoins(t)
    \/ \E t \in Tasks : GovCoinsFindDone(t)
    \/ \E t \in Tasks : GetPortfolio(t)
    \/ \E t \in Tasks : GovPortfolioFindDone(t)
    \/ \E t \in Tasks, resp \in UpstreamResponses : GovFetchReturns(t, resp)
    \/ \E t \in Tasks, err \in UpstreamErrors : GovFetchFails(t, err)
    \/ \E t \in Tasks : GovDelayDone(t)
    \/ \E t \in Tasks : GovExistingFindDone(t)
    \/ \E t \in Tasks : GovFallbackFindDone(t)
    \/ \E t \in Tasks : DeleteManyDone(t)
    \/ \E t \in Tasks : GovInsertManyDone(t)
    \/ \E t \in Tasks : GovCurrentWriteFails(t)
    \/ \E t \in Tasks : HistInsertDone(t)
    \/ \E t \in Tasks : HistInsertFails(t)
    \/ \E t \in Tasks : Finish(t)

SpecGov == GovInit /\ [][GovNext]_vars

\* the continuation of invocation t runs: upstream answers its call
\* (axios.get is given a timeout of 10 s), its timer fires, or its database
\* operation completes or fails
GovProgress(t) ==
    \/ GovListenTimer(t)
    \/ GovInitUpdate(t)
    \/ GovInitHistory(t)
    \/ GovCoinsFindDone(t)
    \/ GovPortfolioFindDone(t)
    \/ \E resp \in UpstreamResponses : GovFetchReturns(t, resp)
    \/ \E err \in UpstreamErrors : GovFetchFails(t, err)
    \/ GovDelayDone(t)
    \/ GovExistingFindDone(t)
    \/ GovFallbackFindDone(t)
    \/ DeleteManyDone(t)
    \/ GovInsertManyDone(t)
    \/ GovCurrentWriteFails(t)
    \/ HistInsertDone(t)
    \/ HistInsertFails(t)

\* the governor listing serving one invocation at a time: a job or a request
\* arrives when the one before it has ended
Solo == { 1 }

GovNextSolo ==
    \/ GovTick
    \/ \E t \in Solo : GovCronUpdate(t)
    \/ \E t \in Solo : GovCronHistory(t)
    \/ \E t \in Solo : GovPostHistory(t)
    \/ \E t \in Solo : GetCoins(t)
    \/ \E t \in Solo : GetPortfolio(t)
    \/ \E t \in Solo : GovProgress(t)
    \/ \E t \in Solo : Finish(t)

\* the event loop's guarantees: time passes, and a continuation that can run
\* does run
SpecGovFair ==
    /\ GovInit /\ [][GovNextSolo]_vars
    /\ WF_vars(GovTick)
    /\ \A t \in Solo : WF_vars(GovProgress(t))

----------------------------------------------------------------------------
(* src/server/server.js: the two handlers that only read, GET /api/portfolio *)
(* and GET /api/history/:coinId, on tables drawn from a bounded set         *)

DEFAULT_DAYS == 7
DayMs == 86400000

DigitChars == << "0", "1", "2", "3", "4", "5", "6", "7", "8", "9" >>

IsDigit(c) == \E k \in DOMAIN DigitChars : DigitChars[k] = c
DigitValue(c) == (CHOOSE k \in DOMAIN DigitChars : DigitChars[k] = c) - 1

RECURSIVE LeadingDigits(_)
\* the longest prefix of s made of digits
LeadingDigits(s) ==
    IF s = << >> \/ ~ IsDigit(Head(s)) THEN << >>
    ELSE << Head(s) >> \o LeadingDigits(Tail(s))

RECURSIVE DecimalValue(_)
DecimalValue(ds) ==
    IF ds = << >> THEN 0
    ELSE 10 * DecimalValue(SubSeq(ds, 1, Len(ds) - 1)) + DigitValue(ds[Len(ds)])

\* parseInt(s) for a string s: an optional minus sign, then the leading
\* digits, whatever follows them; NaN when there is no digit
parseInt(s) ==
    LET neg == s # << >> /\ Head(s) = "-"
        ds == LeadingDigits(IF neg THEN Tail(s) ELSE s) IN
    IF ds = << >> THEN [ nan |-> TRUE, val |-> 0 ]
    ELSE [ nan |-> FALSE, val |-> IF neg THEN 0 - DecimalValue(ds) ELSE DecimalValue(ds) ]

\* const { days = 7 } = req.query; parseInt(days)
parsedDays(q) == IF q.given THEN parseInt(q.text) ELSE [ nan |-> FALSE, val |-> DEFAULT_DAYS ]

\* The days parameter of a request: absent, or its text. isNumber and value
\* say which number the client meant, if it meant one.
DaysParam(given, text, isNumber, value) ==
    [ given |-> given, text |-> text, isNumber |-> isNumber, value |-> value ]

DaysInputs ==
    { DaysParam(FALSE, << >>, TRUE, DEFAULT_DAYS),
      DaysParam(TRUE, << "7" >>, TRUE, 7),
      DaysParam(TRUE, << "1" >>, TRUE, 1),
      DaysParam(TRUE, << "0" >>, TRUE, 0),
      DaysParam(TRUE, << "1", "0" >>, TRUE, 10),
      DaysParam(TRUE, << "2", "x" >>, FALSE, 0),
      DaysParam(TRUE, << "x" >>, FALSE, 0) }

CoinIdInputs == { "bitcoin", "solana", "dogecoin" }

\* startDate.setDate(startDate.getDate() - n), the server's clock in UTC
startDateOf(at, n) == at - n * DayMs

RECURSIVE FilterHistory(_, _, _)
\* { coinId: coinId, timestamp: { $gte: startDate } }
FilterHistory(coll, coinId, startDate) ==
    IF coll = << >> THEN << >>
    ELSE IF Head(coll).coinId = coinId /\ Head(coll).timestamp >= startDate
         THEN << Head(coll) >> \o FilterHistory(Tail(coll), coinId, startDate)
         ELSE FilterHistory(Tail(coll), coinId, startDate)

RECURSIVE InsertByTimestamp(_, _)
InsertByTimestamp(d, s) ==
    IF s = << >> THEN << d >>
    ELSE IF d.timestamp < Head(s).timestamp THEN << d >> \o s
         ELSE << Head(s) >> \o InsertByTimestamp(d, Tail(s))

RECURSIVE SortByTimestamp(_)
\* .sort({ timestamp: 1 }): ascending, ties in insertion order
SortByTimestamp(s) ==
    IF s = << >> THEN << >>
    ELSE InsertByTimestamp(s[Len(s)], SortByTimestamp(SubSeq(s, 1, Len(s) - 1)))

\* a find that forgets the coinId; C16 must tell it from FindHistory
FindHistory_anyCoin(coll, coinId, startDate) ==
    SortByTimestamp(SelectSeq(coll, LAMBDA d : d.timestamp >= startDate))

\* HistoryData.find({ coinId, timestamp: { $gte: startDate } }).sort({ timestamp: 1 })
FindHistory(coll, coinId, startDate) ==
    SortByTimestamp(FilterHistory(coll, coinId, startDate))

\* GET /api/history/:coinId arrives: startDate is computed and the find is
\* issued
GetHistory(t, coinId, days) ==
    /\ Idle(t)
    /\ task' = [ task EXCEPT ![t] =
                   [ NewTask("getHistory", "historyFind") EXCEPT
                       !.query = [ coinId |-> coinId, days |-> days,
                                   n |-> parsedDays(days),
                                   startDate |-> startDateOf(now, parsedDays(days).val) ] ] ]
    /\ UNCHANGED << now, current, history, gov, lastSuccessAt >>

\* GET /api/history/:coinId: the find completes and the response is sent; an
\* invalid startDate (days not a number) makes the query fail with a cast
\* error, answered 500
HistoryFindDone(t) ==
    /\ task[t].pc = "historyFind"
    /\ LET q == task[t].query IN
         task' = [ task EXCEPT ![t] =
                     IF q.n.nan
                     THEN Done(task[t], "500", << >>, "CastError")
                     ELSE Done(task[t], "200",
                               [ data |-> FindHistory(history, q.coinId, q.startDate),
                                 coinId |-> q.coinId, days |-> q.n.val ],
                               "none") ]
    /\ UNCHANGED << now, current, history, gov, lastSuccessAt >>

\* a listing of seven coins, out of rank order
Listing7 ==
    << RawCoin("solana", "Solana", <<"s","o","l">>, 20, 5, 3, 5),
       RawCoin("bitcoin", "Bitcoin", <<"b","t","c">>, 50, 9, 2, 1),
       RawCoin("ethereum", "Ethereum", <<"e","t","h">>, 30, 8, -1, 2),
       RawCoin("litecoin", "Litecoin", <<"l","t","c">>, 7, 3, 0, 7),
       RawCoin("eos", "EOS", <<"e","o","s">>, 2, 4, -4, 6),
       RawCoin("bitcoin-cash", "Bitcoin Cash", <<"b","c","h">>, 9, 6, 5, 4),
       RawCoin("ethereum-classic", "Ethereum Classic", <<"e","t","c">>, 4, 7, 1, 3) >>

\* current tables of zero, two, six and seven coins
ReadCurrents ==
    { formatCurrent(SubSeq(Listing7, 1, k), StartTime - TickMs) : k \in { 0, 2, 6, 7 } }

\* history tables: captures of several days, in and out of time order, on and
\* around the seven-day boundary
ReadHistories ==
    { << >>,
      formatHistory(RespA, StartTime - 8 * DayMs)
        \o formatHistory(RespA, StartTime - 7 * DayMs)
        \o formatHistory(RespB, StartTime - DayMs)
        \o formatHistory(RespA, StartTime),
      formatHistory(RespB, StartTime - DayMs)
        \o formatHistory(RespA, StartTime - 7 * DayMs - 1)
        \o formatHistory(RespA, StartTime - 10 * DayMs)
        \o formatHistory(RespB, StartTime - 2 * DayMs),
      formatHistory(RespA, StartTime - DayMs)
        \o formatHistory(RespB, StartTime - DayMs) }

ReadInit ==
    /\ now = StartTime
    /\ current \in ReadCurrents
    /\ history \in ReadHistories
    /\ task = [ t \in Tasks |-> IdleTask ]
    /\ lastFetchTime = 0
    /\ fetchInProgress = FALSE
    /\ fetchRetryCount = 0
    /\ lastSuccessAt = Never

ReadNext ==
    \/ \E t \in Tasks : GetPortfolio(t)
    \/ \E t \in Tasks : PortfolioFindDone(t)
    \/ \E t \in Tasks, coinId \in CoinIdInputs, days \in DaysInputs : GetHistory(t, coinId, days)
    \/ \E t \in Tasks : HistoryFindDone(t)
    \/ \E t \in Tasks : Finish(t)

SpecRead == ReadInit /\ [][ReadNext]_vars

\* server.js with all four handlers: the jobs and handlers of Spec, and
\* GET /api/history/:coinId asked for bitcoin without a days parameter
NextAll ==
    \/ Next
    \/ \E t \in Tasks, days \in { d \in DaysInputs : ~ d.given } : GetHistory(t, "bitcoin", days)
    \/ \E t \in Tasks : HistoryFindDone(t)

SpecAll == Init /\ [][NextAll]_vars

----------------------------------------------------------------------------
(* Properties *)

\* task t calls updateCurrentData in this step: it either issues the upstream
\* call or goes to read the stored rows instead
UpdateCalled(t) ==
    /\ task[t].pc \in { "idle", "coinsFind", "initDelay" }
    /\ task'[t].pc \in { "fetch", "existingFind" }

\* C1: at most one upstream fetch is in flight at any time.
C1_AtMostOneInFlight == Cardinality(InFlight) <= 1

\* the clock reads less than the minimum interval after the last upstream
\* call that succeeded
WithinMinInterval ==
    /\ lastSuccessAt # Never
    /\ now - lastSuccessAt < MIN_FETCH_INTERVAL

\* C2: a refresh requested less than the minimum interval after the last
\* successful upstream fetch is denied: it issues no upstream call, goes to
\* read the stored snapshot and leaves the current table as it is.
C2_TooSoonDenied ==
    [][ \A t \in Tasks :
          UpdateCalled(t) /\ WithinMinInterval
            => /\ task'[t].calls = 0
               /\ task'[t].pc = "existingFind"
               /\ current' = current ]_vars

\* C3: a refresh requested while another caller holds the in-flight flag
\* issues no upstream call and sets no timer, reads the stored snapshot at
\* once, and returns it without an error.
C3_AlreadyInFlightReturnsStored ==
    [][ \A t \in Tasks :
          /\ UpdateCalled(t) /\ fetchInProgress
               => /\ task'[t].pc = "existingFind"
                  /\ task'[t].calls = 0
                  /\ task'[t].wakeAt = task[t].wakeAt
                  /\ InFlight' = InFlight
                  /\ UNCHANGED << current, gov >>
          /\ ( /\ task[t].pc = "existingFind"
               /\ task[t].denied = "AlreadyInFlight"
               /\ task'[t].pc # "existingFind" )
               => /\ task'[t].ret = "returned"
                  /\ task'[t].err = "none"
                  /\ current' = current
                  /\ task[t].kind = "getCoins"
                       => /\ task'[t].res = "200"
                          /\ task'[t].data = FindCurrent(current) ]_vars

\* a refresh was denied for the flag, which another caller still holds, and
\* is reading the stored rows
C3_Witness ==
    \E t \in Tasks :
      /\ task[t].pc = "existingFind"
      /\ task[t].denied = "AlreadyInFlight"
      /\ task[t].calls = 0
      /\ fetchInProgress
      /\ \E u \in Tasks \ { t } : task[u].pc \in FetchingPcs \cup { "backoff", "histBackoff" }

\* updateCurrentData has caught Error('Max retries exceeded') from a fetch
\* whose every attempt was answered 429
GaveUpRateLimited(t) ==
    /\ task[t].pc = "fallbackFind"
    /\ task[t].err = "MaxRetriesExceeded"
    /\ task[t].only429

\* C4: when upstream answers 429 to every attempt, the fetch gives up with
\* MaxRetriesExceeded after exactly maxRetries retries, that is after
\* 1 + maxRetries upstream calls.
C4_RetriesThriceThenGivesUp ==
    \A t \in Tasks : GaveUpRateLimited(t) => task[t].calls = 1 + maxRetries

\* C5: when upstream answers 429 to the first k attempts, k <= maxRetries, and
\* would then succeed, the fetch does not give up with MaxRetriesExceeded, and
\* when it succeeds it has issued exactly k + 1 upstream calls.
C5_SucceedsBeforeCeiling ==
    \A t \in Tasks :
      /\ task[t].only429 /\ task[t].calls <= maxRetries => ~ GaveUpRateLimited(t)
      /\ task[t].pc = "deleteMany" /\ task[t].only429
           => /\ task[t].calls = task[t].retryCount + 1
              /\ task[t].coinData \in UpstreamResponses

\* the upstream call of task t is answered 429 in this step
RateLimited(t) ==
    /\ task[t].pc \in FetchingPcs
    /\ task'[t].pc \in { "backoff", "histBackoff" }
    /\ task'[t].err = "429"

C7_UniqueCoinId == Cardinality(CoinIds(current)) = Len(current)

\* two refreshes overlapped and the unique index turned the second insert down
C7_Witness ==
    /\ current # << >>
    /\ \E t \in Tasks : task[t].pc = "done" /\ task[t].err = "E11000"

\* a reader's find on the current table completes in this step
ReadStep(t) ==
    /\ task[t].pc \in { "coinsFind", "portfolioFind" }
    /\ task'[t].pc # task[t].pc

\* the rows are exactly those of one upstream listing
IsWholeListing(seen) ==
    \E resp \in UpstreamResponses : SameDocs(seen, formatCurrent(resp, 0))

\* C8: a read that completes while a refresh is between its deleteMany and
\* its insertMany sees a whole snapshot: the rows of one listing, or no rows
\* only if the refresh found the table empty.
C8_ReplaceAtomicForReaders ==
    [][ \A t \in Tasks :
          ReadStep(t) /\ MidReplace # { }
            => LET seen == FindCurrent(current) IN
               \/ IsWholeListing(seen)
               \/ seen = << >> /\ \A u \in MidReplace : ~ task[u].cleared ]_vars

\* the insertMany of task t's refresh succeeds in this step
RefreshSucceeds(t) ==
    /\ task[t].pc = "insertMany"
    /\ task'[t].ret = "returned"

\* u is s in upper case
UpperOf(u, s) ==
    /\ Len(u) = Len(s)
    /\ \A k \in DOMAIN u :
         /\ \A j \in DOMAIN LowerChars : u[k] # LowerChars[j]
         /\ \/ u[k] = s[k]
            \/ \E j \in DOMAIN LowerChars : LowerChars[j] = s[k] /\ UpperChars[j] = u[k]

\* C9: right after a successful refresh, reading the current table returns
\* exactly the coins of the fetched listing, each once, none left over from
\* the snapshot before, in ascending rank order, with symbols in upper case.
C9_ReadAfterRefresh ==
    [][ \A t \in Tasks :
          RefreshSucceeds(t) =>
            LET read == FindCurrent(current')
                coins == task[t].coinData IN
            /\ Len(read) = Len(coins)
            /\ \A i \in DOMAIN coins : \E j \in DOMAIN read :
                 /\ read[j].coinId = coins[i].id
                 /\ read[j].name = coins[i].name
                 /\ read[j].rank = coins[i].market_cap_rank
                 /\ read[j].price = coins[i].current_price
                 /\ read[j].marketCap = coins[i].market_cap
                 /\ read[j].change24h = coins[i].price_change_percentage_24h
                 /\ UpperOf(read[j].symbol, coins[i].symbol)
            /\ \A i, j \in DOMAIN read : i < j => read[i].rank < read[j].rank ]_vars

\* GET /api/coins has refreshed the empty table with a listing
\* that came out of rank order, and the table now reads in rank order
C9_Witness ==
    \E t \in Tasks :
      /\ task[t].pc = "done" /\ task[t].kind = "getCoins"
      /\ task[t].ret = "returned" /\ task[t].res = "200"
      /\ current = task[t].data
      /\ Len(current) = 2
      /\ current[1].rank > current[2].rank
      /\ FindCurrent(current) = << current[2], current[1] >>
      /\ current[1].symbol = << "S", "O", "L" >>

\* C10: a refresh that succeeds on a table holding the rows of this same
\* listing leaves the table reading as it read before: the same rows, in rank
\* order, timestamps aside.
C10_ReplaceIdempotent ==
    [][ \A t \in Tasks :
          RefreshSucceeds(t) /\ task[t].refill =>
            LET read == StripAll(FindCurrent(current')) IN
            /\ read = task[t].prev
            /\ Len(read) = Len(task[t].coinData)
            /\ \A i, j \in DOMAIN read : i < j => read[i].rank < read[j].rank ]_vars

\* a refresh has replaced the rows of a listing with the rows of that same
\* listing, which had come out of rank order
C10_Witness ==
    \E t \in Tasks :
      /\ task[t].pc = "done" /\ task[t].ret = "returned" /\ task[t].refill
      /\ Len(current) = 2
      /\ current[1].rank > current[2].rank

\* updateCurrentData throws to its caller in this step
UpdateThrows(t) ==
    /\ task[t].ret # "threw"
    /\ task'[t].ret = "threw"

\* C11: a refresh that fails while the current table holds a snapshot raises
\* no error; the error reaches the caller only when the table holds no rows.
C11_FallbackToStored ==
    [][ \A t \in Tasks : UpdateThrows(t) => current' = << >> ]_vars

\* GET /api/coins answers 500 in this step because its upstream fetch failed
CoinsUpstream500(t) ==
    /\ task[t].kind = "getCoins"
    /\ task[t].pc # "done"
    /\ task'[t].pc = "done"
    /\ task'[t].res = "500"
    /\ task'[t].err \in UpstreamErrors \cup { "MaxRetriesExceeded" }

\* C12: GET /api/coins answers 500 for an upstream failure only when the
\* current table holds no snapshot; with a snapshot stored, upstream failures
\* are not surfaced.
C12_Only500OnColdStart ==
    [][ \A t \in Tasks : CoinsUpstream500(t) => current' = << >> ]_vars

\* the places of storeHistoryData
HistoryPcs == { "histFetch", "histBackoff", "histInsert" }

\* the caller of storeHistoryData went on normally
HistoryCallerUnharmed(rec) ==
    /\ rec.pc = "done"
    /\ rec.err = "none"
    /\ rec.res = IF rec.kind = "postHistory" THEN "200" ELSE "ok"

\* C13: storeHistoryData never throws to its caller: when its upstream fetch
\* fails, when the fetch is skipped, or when its insertMany fails, the cron
\* callback and initializeData end normally and POST /api/history answers 200.
C13_HistoryNeverThrows ==
    [][ \A t \in Tasks :
          /\ task[t].pc \in HistoryPcs /\ task'[t].pc \notin HistoryPcs
               => HistoryCallerUnharmed(task'[t])
          /\ ( /\ task[t].pc # "done" /\ task'[t].pc = "done"
               /\ task'[t].kind \in { "cronHistory", "postHistory" } )
               => HistoryCallerUnharmed(task'[t]) ]_vars

\* POST /api/history has answered 200 although nothing was stored, and the
\* scheduled capture has ended normally after a failure too
C13_Witness ==
    /\ \E t \in Tasks :
         /\ task[t].pc = "done" /\ task[t].kind = "postHistory"
         /\ task[t].ret = "swallowed" /\ task[t].res = "200"
    /\ \E t \in Tasks :
         /\ task[t].pc = "done" /\ task[t].kind = "cronHistory"
         /\ task[t].ret = "swallowed" /\ task[t].res = "ok"
    /\ history = << >>

\* C14: history is append-only: every step leaves the records the history
\* table held in place and unchanged, and only adds records after them.
C14_HistoryAppendOnly ==
    [][ /\ Len(history') >= Len(history)
        /\ SubSeq(history', 1, Len(history)) = history ]_vars

\* a capture has added its records behind those of an earlier run
C14_Witness ==
    /\ Len(history) = Len(OldHistory) + Len(RespA)
    /\ SubSeq(history, 1, Len(OldHistory)) = OldHistory
    /\ history[Len(history)].timestamp >= StartTime

\* GET /api/portfolio sends its response in this step
PortfolioAnswers(t) ==
    /\ task[t].pc = "portfolioFind"
    /\ task'[t].pc = "done"

\* C15: GET /api/portfolio on an empty current table answers 200 with
\* totalValue 0, avgChange 0 and no coins.
C15_EmptyPortfolio ==
    [][ \A t \in Tasks :
          PortfolioAnswers(t) /\ current = << >>
            => /\ task'[t].res = "200"
               /\ task'[t].data.totalValue = 0
               /\ task'[t].data.avgChange = JsNumber(0)
               /\ task'[t].data.coins = << >> ]_vars

\* GET /api/history/:coinId sends its response in this step
HistoryAnswers(t) ==
    /\ task[t].pc = "historyFind"
    /\ task'[t].pc = "done"

\* how many times the record d occurs in the sequence s
Occurrences(s, d) == Cardinality({ i \in DOMAIN s : s[i] = d })

\* C16: for a days parameter that is a number N, or absent (N = 7),
\* GET /api/history/:coinId answers 200 with exactly the stored history
\* records of that coin whose timestamp is at or after now - N days, each as
\* often as it is stored, in ascending timestamp order, and no other record.
C16_HistoryWindow ==
    [][ \A t \in Tasks :
          HistoryAnswers(t) /\ task[t].query.days.isNumber =>
            LET coinId == task[t].query.coinId
                cutoff == now - task[t].query.days.value * DayMs
                wanted == { i \in DOMAIN history :
                              /\ history[i].coinId = coinId
                              /\ history[i].timestamp >= cutoff }
                out == task'[t].data.data IN
            /\ task'[t].res = "200"
            /\ Len(out) = Cardinality(wanted)
            /\ \A i \in wanted : Occurrences(out, history[i]) = Occurrences(history, history[i])
            /\ \A i \in DOMAIN out : out[i].coinId = coinId /\ out[i].timestamp >= cutoff
            /\ \A i, j \in DOMAIN out : i < j => out[i].timestamp <= out[j].timestamp ]_vars

\* a request without a days parameter has been answered from a table stored
\* out of time order that also holds an older record of the coin, a record
\* one millisecond short of seven days old, and records of other coins
C16_Witness ==
    \E t \in Tasks :
      /\ task[t].pc = "done" /\ task[t].kind = "getHistory" /\ task[t].res = "200"
      /\ task[t].data.coinId = "bitcoin"
      /\ task[t].data.days = DEFAULT_DAYS
      /\ Len(task[t].data.data) = 2
      /\ task[t].data.data[1].timestamp = now - 2 * DayMs
      /\ task[t].data.data[2].timestamp = now - DayMs
      /\ history[1].timestamp = now - DayMs
      /\ \E i \in DOMAIN history :
           history[i].coinId = "bitcoin" /\ history[i].timestamp = now - 7 * DayMs - 1
      /\ \E i \in DOMAIN history : history[i].coinId = "solana"

\* the find of GET /api/coins completes in this step
CoinsFindStep(t) ==
    /\ task[t].pc = "coinsFind"
    /\ task'[t].pc # "coinsFind"

\* the rows are older than an hour by their capture time
IsStale(rows) == now - rows[1].timestamp > STALE_AFTER

\* C17: GET /api/coins calls the refresh when the current table is empty and
\* whenever the stored snapshot is older than one hour; a snapshot at most one
\* hour old is served as it is, without a refresh.
C17_RefreshWhenStale ==
    [][ \A t \in Tasks :
          CoinsFindStep(t) =>
            LET currentData == FindCurrent(current) IN
            IF Len(currentData) = 0 \/ IsStale(currentData)
            THEN task'[t].pc \in { "fetch", "existingFind" }
            ELSE /\ task'[t].pc = "done"
                 /\ task'[t].res = "200"
                 /\ task'[t].data = currentData
                 /\ task'[t].calls = 0 ]_vars

\* GET /api/coins has read a snapshot older than an hour
C17_Witness ==
    \E t \in Tasks :
      /\ task[t].kind = "getCoins"
      /\ task[t].pc \in { "fetch", "existingFind" }
      /\ Len(task[t].currentData) > 0
      /\ now - task[t].currentData[1].timestamp > STALE_AFTER

RECURSIVE SumOfMarketCaps(_, _)
\* the sum of marketCap over the rows of coll at the indices idx
SumOfMarketCaps(coll, idx) ==
    IF idx = { } THEN 0
    ELSE LET i == CHOOSE k \in idx : TRUE IN
         coll[i].marketCap + SumOfMarketCaps(coll, idx \ { i })

\* how many rows of coll rank before the row c
RankedBefore(coll, c) == Cardinality({ i \in DOMAIN coll : coll[i].rank < c.rank })

\* C18: the portfolio's totalValue is the sum of marketCap over all stored
\* coins, and its coins are the first six stored coins in ascending rank order
\* (all of them when fewer than six are stored).
C18_PortfolioTotalAndTopSix ==
    [][ \A t \in Tasks :
          PortfolioAnswers(t) =>
            LET out == task'[t].data
                n == Len(current) IN
            /\ task'[t].res = "200"
            /\ out.totalValue = SumOfMarketCaps(current, DOMAIN current)
            /\ Len(out.coins) = IF n < 6 THEN n ELSE 6
            /\ \A i \in DOMAIN out.coins :
                 \E j \in DOMAIN current :
                   /\ RankedBefore(current, current[j]) = i - 1
                   /\ out.coins[i].name = current[j].name
                   /\ out.coins[i].symbol = current[j].symbol
                   /\ out.coins[i].price = current[j].price
                   /\ out.coins[i].change24h = current[j].change24h ]_vars

\* a portfolio was answered from a table of seven coins stored out of rank
\* order: six coins are listed and the total counts all seven
C18_Witness ==
    \E t \in Tasks :
      /\ task[t].kind = "getPortfolio"
      /\ task[t].pc = "done"
      /\ Len(current) = 7
      /\ current[1].rank > current[2].rank
      /\ Len(task[t].data.coins) = 6
      /\ task[t].data.totalValue = SumOfMarketCaps(current, DOMAIN current)

\* a scheduled or startup job (cron callback, initializeData) has ended
BackgroundJobEnded(t) ==
    /\ task[t].kind \in { "cronUpdate", "cronHistory", "init" }
    /\ task[t].pc = "done"

OutstandingPcs == FetchingPcs \cup { "backoff", "histBackoff" }

\* C20: every way out of a fetch releases the in-flight flag: whenever no
\* upstream call and no backoff wait is outstanding the flag is false, so a
\* fetch that failed does not leave later callers denied for a fetch that is
\* no longer running.
C20_PermitReleased ==
    fetchInProgress => \E t \in Tasks : task[t].pc \in OutstandingPcs

\* a fetch has given up with Error('Max retries exceeded') and the flag is
\* free again
C20_Witness ==
    /\ ~ fetchInProgress
    /\ \E t \in Tasks :
         /\ task[t].pc = "fallbackFind"
         /\ task[t].err = "MaxRetriesExceeded"
         /\ task[t].calls = maxRetries

\* the upstream call of task t resolves in this step and the fetch returns
\* the listing to its caller
FetchSucceeds(t) ==
    /\ task[t].pc \in FetchingPcs
    /\ task'[t].pc \in { "deleteMany", "histInsert" }

\* C21: when an upstream fetch succeeds, the time of the last successful
\* fetch becomes the clock's reading at the moment of the success, also when
\* the success follows backoff waits, and the fetch's retry count starts from
\* zero again.
C21_SuccessStampsNow ==
    [][ \A t \in Tasks :
          FetchSucceeds(t) =>
            /\ lastFetchTime' = now
            /\ \A u \in Tasks :
                 task[u].pc \notin OutstandingPcs /\ task'[u].pc \in FetchingPcs
                   => task'[u].retryCount = 0 ]_vars

\* the fetch of task t ends in this step by throwing to its caller
FetchGivesUp(t) ==
    /\ task[t].pc \in OutstandingPcs
    /\ task'[t].pc \notin OutstandingPcs
    /\ ~ FetchSucceeds(t)

\* C22: a retry sequence that ends in failure leaves the time of the last
\* successful fetch as it was, and so does each failed attempt and each wait
\* within it: the time changes only in a step in which an upstream call
\* succeeds.
C22_FailureKeepsLastFetchTime ==
    [][ /\ \A t \in Tasks : FetchGivesUp(t) => lastFetchTime' = lastFetchTime
        /\ lastFetchTime' # lastFetchTime => \E t \in Tasks : FetchSucceeds(t) ]_vars

\* a fetch has failed and the next one was admitted: no fetch has succeeded
\* yet and the failed one has left no time behind
C22_Witness ==
    /\ lastFetchTime = 0
    /\ \E t, u \in Tasks :
         /\ task[t].pc = "fallbackFind"
         /\ task[t].err # "none"
         /\ task[u].pc \in FetchingPcs
         /\ task[u].fetchNow >= task[t].fetchNow

\* the errors no retry can mend
NonRetryable == { "400" }

\* the upstream call of task t is answered with a 5xx, or times out, in this
\* step
FailsTransient(t) ==
    /\ task[t].pc \in FetchingPcs
    /\ task'[t].pc \notin FetchingPcs
    /\ ~ FetchSucceeds(t)
    /\ ~ RateLimited(t)
    /\ task'[t].err \notin NonRetryable

TransientErrors == UpstreamErrors \ ({ "429" } \cup NonRetryable)

FailsNonRetryable(t) ==
    /\ task[t].pc \in FetchingPcs
    /\ task'[t] # task[t]
    /\ task'[t].err \in NonRetryable

\* C24: an error that no retry can mend surfaces on its first occurrence: the
\* step in which the call fails ends the fetch, no further upstream call is
\* issued and no timer is set.
C24_NonRetryableSurfacesAtOnce ==
    [][ \A t \in Tasks :
          FailsNonRetryable(t) =>
            /\ task'[t].pc \notin OutstandingPcs
            /\ task'[t].wakeAt = task[t].wakeAt
            /\ InFlight' = InFlight \ { t } ]_vars

\* the clock of the model has reached its last reading while task t waits
\* for a timer set beyond it
HorizonWait(t) ==
    /\ now = MaxNow
    /\ task[t].pc \in { "backoff", "histBackoff" }
    /\ ~ TimerFired(task[t])

\* C25: a fetch never issues more upstream calls than the first one plus
\* maxRetries retries, and every invocation that has started (refresh,
\* history capture, GET /api/coins) comes to its end, whatever upstream
\* answers; the wait for a timer set beyond the last clock reading of the
\* model is left open.
C25_FetchTerminates ==
    /\ [](\A t \in Tasks : task[t].calls <= 1 + maxRetries)
    /\ \A t \in Tasks :
         (task[t].pc \notin { "idle", "done" })
           ~> (task[t].pc = "done" \/ HorizonWait(t))

\* a third upstream call has succeeded after two failed attempts and their
\* waits
C25_Witness ==
    \E t \in Tasks :
      /\ task[t].pc \in { "deleteMany", "histInsert" }
      /\ task[t].calls = maxRetries
      /\ task[t].retryCount = maxRetries - 1

\* how the storeHistoryData of an invocation can have ended
HistoryOutcomes == { "stored", "swallowed", "skipped" }

\* C26: the startup initialization calls the refresh first and the history
\* capture after it, once each, and it calls the history capture also when
\* the refresh has failed or the database already held rows: it never ends
\* without its capture having run, and its capture never starts before its
\* refresh has ended.
C26_StartupRunsBoth ==
    \A t \in Tasks :
      task[t].kind = "init" =>
        /\ task[t].pc = "done" => task[t].ret \in HistoryOutcomes
        /\ task[t].pc \in { "histFetch", "histBackoff", "histInsert" }
             => task[t].ret \in { "returned", "fellBack", "threw" }

ReadKinds == { "getHistory", "getPortfolio" }

\* the invocations that call fetchCoinGeckoData: through updateCurrentData
\* (pc "fetch") or through storeHistoryData (pc "histFetch")
UpstreamCallers ==
    [ fetch |-> { "getCoins", "cronUpdate", "init" },
      histFetch |-> { "postHistory", "cronHistory", "init" } ]

\* C27: GET /api/history/:coinId and GET /api/portfolio issue no upstream
\* call and leave the current table, the history table and the governor's
\* variables as they are; of the four handlers only GET /api/coins, inside
\* the refresh, and POST /api/history, inside the capture, call upstream.
C27_ReadsReadOnly ==
    /\ [](\A t \in Tasks :
            /\ task[t].kind \in ReadKinds
                 => /\ task[t].calls = 0
                    /\ task[t].pc \in { "historyFind", "portfolioFind", "done" }
            /\ task[t].pc \in FetchingPcs
                 => task[t].kind \in UpstreamCallers[task[t].pc])
    /\ [][ \A t \in Tasks :
             /\ task'[t] # task[t]
             /\ task[t].kind \in ReadKinds \/ task'[t].kind \in ReadKinds
             => UNCHANGED << current, history, gov, lastSuccessAt, now >> ]_vars

\* GET /api/history/bitcoin has answered with stored records while a refresh
\* of another invocation awaits upstream
C27_Witness ==
    \E t, u \in Tasks :
      /\ task[t].kind = "getHistory"
      /\ task[t].pc = "done"
      /\ task[t].res = "200"
      /\ Len(task[t].data.data) > 0
      /\ task[u].pc = "fetch"

\* the pcs of an invocation inside updateCurrentData
RefreshPcs == { "fetch", "backoff", "deleteMany", "insertMany", "existingFind", "fallbackFind" }

\* storeHistoryData is called by task t in this step and its fetch is skipped
CaptureDenied(t) ==
    /\ task[t].pc \in { "idle", "initHistoryDelay" }
    /\ task'[t].ret = "skipped"

\* task t takes a step of its storeHistoryData: a continuation of it, or the
\* call of it by a step that completes no operation of the refresh
CaptureStep(t) ==
    /\ task'[t] # task[t]
    /\ \/ task[t].pc \in HistoryPcs
       \/ task[t].pc \notin RefreshPcs /\ task'[t].pc \in HistoryPcs
       \/ CaptureDenied(t)

\* task t takes a step of its updateCurrentData: a continuation of it, or the
\* call of it
RefreshStep(t) ==
    /\ task'[t] # task[t]
    /\ \/ task[t].pc \in RefreshPcs
       \/ task[t].pc \notin HistoryPcs /\ task'[t].pc \in RefreshPcs

\* C28: no step of a history capture changes the current table, whatever its
\* outcome, and no step of a refresh changes the history table; a capture
\* whose fetch is skipped issues no upstream call and appends nothing.
C28_CaptureAndRefreshFrames ==
    [][ \A t \in Tasks :
          /\ CaptureStep(t) => current' = current
          /\ RefreshStep(t) => history' = history
          /\ CaptureDenied(t)
               => /\ history' = history
                  /\ task'[t].calls = 0
                  /\ task'[t].pc \notin OutstandingPcs ]_vars

\* a history capture was denied its fetch and has returned: the history table
\* is still empty and the current table holds its rows
C28_Witness ==
    \E t \in Tasks :
      /\ task[t].kind \in { "cronHistory", "postHistory" }
      /\ task[t].pc = "done"
      /\ task[t].ret = "skipped"
      /\ history = << >>
      /\ current # << >>

\* a scheduled history capture (cron job or startup) calls storeHistoryData
\* in this step
ScheduledCaptureCalled(t) ==
    /\ task'[t] # task[t]
    /\ task'[t].kind \in { "cronHistory", "init" }
    /\ task[t].pc \notin HistoryPcs
    /\ \/ task'[t].pc \in HistoryPcs
       \/ task'[t].ret = "skipped" /\ task[t].ret # "skipped"

\* no invocation has seen an upstream call fail
UpstreamHealthy ==
    \A u \in Tasks : task[u].retryCount = 0 /\ task[u].err \notin UpstreamErrors

\* C29: while upstream is healthy, every scheduled history capture issues its
\* upstream call, whose listing it then appends: none is skipped, also not
\* the one triggered together with a scheduled refresh nor the startup capture
\* that follows the startup refresh.
C29_ScheduledCaptureNotSkipped ==
    [][ \A t \in Tasks :
          ScheduledCaptureCalled(t) /\ UpstreamHealthy
            => /\ task'[t].pc = "histFetch"
               /\ task'[t].calls = 1
               /\ task'[t].ret # "skipped" ]_vars

\* a refresh ends in failure in this step: updateCurrentData rethrows from
\* its catch
RefreshFailsStep(t) ==
    /\ task[t].pc \in { "fetch", "deleteMany", "insertMany" }
    /\ task[t].ret # "threw"
    /\ task'[t].ret = "threw"

\* C30: a refresh that fails at any step, also in the store after its
\* deleteMany and before its insertMany has completed, does not leave the
\* current table empty when the table held a snapshot before the refresh
\* cleared it.
C30_FailedRefreshKeepsSnapshot ==
    [][ \A t \in Tasks :
          RefreshFailsStep(t) /\ task[t].cleared => current' # << >> ]_vars

\* ascending by rank
RankAscending(s) ==
    \A i, j \in DOMAIN s : i < j => s[i].rank <= s[j].rank

\* a GET /api/coins has answered 200
CoinsAnswered200(t) ==
    /\ task[t].kind = "getCoins"
    /\ task[t].pc = "done"
    /\ task[t].res = "200"

\* C31: the data list of every successful GET /api/coins response is in
\* ascending rank order, whether it was read from the store or is the
\* formattedData of the refresh the request triggered.
C31_CoinsSortedByRank ==
    \A t \in Tasks : CoinsAnswered200(t) => RankAscending(task[t].data)

\* POST /api/history has sent its response
PostHistoryAnswered(t) ==
    /\ task[t].kind = "postHistory"
    /\ task[t].pc = "done"

\* C32: POST /api/history always answers success ('History data stored
\* successfully'), whether a record was appended, the upstream call failed,
\* the fetch was denied or the store rejected the insert; its 500 branch is
\* never taken.
C32_PostHistoryAlways200 ==
    \A t \in Tasks :
      PostHistoryAnswered(t)
        => /\ task[t].res = "200"
           /\ task[t].err = "none"
           /\ task[t].ret \in HistoryOutcomes

\* one POST /api/history has answered 200 after its fetch was denied,
\* another after a failure, and nothing was appended
C32_Witness ==
    /\ \E t \in Tasks :
         PostHistoryAnswered(t) /\ task[t].ret = "skipped" /\ task[t].res = "200"
    /\ \E t \in Tasks :
         PostHistoryAnswered(t) /\ task[t].ret = "swallowed" /\ task[t].res = "200"
    /\ \A i \in DOMAIN history : history[i].timestamp < StartTime

\* the wait of invocation t inside its retry loop ends in this step
BackoffEnds(t) ==
    /\ task[t].pc \in { "backoff", "histBackoff" }
    /\ task'[t].pc \notin { "backoff", "histBackoff" }

\* C33: every backoff wait of a retry sequence is followed by another
\* upstream attempt; after the last permitted attempt has failed no further
\* wait is made with the in-flight flag held.
C33_BackoffThenAttempt ==
    [][ \A t \in Tasks :
          BackoffEnds(t)
            => /\ task'[t].pc \in FetchingPcs
               /\ task'[t].calls = task[t].calls + 1 ]_vars

----------------------------------------------------------------------------
(* src/README.md, the retry listing (lines 115-485): fetchCoinGeckoData
   spaces its calls by RATE_LIMIT_DELAY and retries a 429 by calling itself,
   counting the retries in the global fetchRetryCount. The capture path is
   modelled: the 4-hourly cron job and POST /api/history, both through
   storeHistoryData. *)

RATE_LIMIT_DELAY == 60000
MAX_RETRIES == 3
MAX_BACKOFF == 60000
\* upstream answers at most this many calls of one fetch with a retried 429
MaxCalls == 5

\* Math.min(1000 * Math.pow(2, fetchRetryCount), 60000)
backoffTime(n) == IF 1000 * Pow2(n) < MAX_BACKOFF THEN 1000 * Pow2(n) ELSE MAX_BACKOFF

\* fetchCoinGeckoData is entered: it waits when the last success is less than
\* RATE_LIMIT_DELAY ago, and otherwise issues the axios.get
retryFetchEntry(rec) ==
    LET timeSinceLastFetch == now - lastFetchTime IN
    IF timeSinceLastFetch < RATE_LIMIT_DELAY
    THEN Sleep(rec, "rateWait", RATE_LIMIT_DELAY - timeSinceLastFetch)
    ELSE [ rec EXCEPT !.pc = "histFetch", !.calls = rec.calls + 1 ]

RetryInit ==
    /\ now = StartTime
    /\ current = formatCurrent(RespA, StartTime - TickMs)
    /\ history \in { << >>, OldHistory }
    /\ task = [ t \in Tasks |-> IdleTask ]
    /\ lastFetchTime = 0
    /\ fetchInProgress = FALSE
    /\ fetchRetryCount = 0
    /\ lastSuccessAt = Never

\* cron.schedule('0 */4 * * *'): try { await storeHistoryData() }
RetryCronHistory(t) ==
    /\ Idle(t)
    /\ task' = [ task EXCEPT ![t] = retryFetchEntry(NewTask("cronHistory", "idle")) ]
    /\ UNCHANGED << now, current, history, gov, lastSuccessAt >>

\* POST /api/history arrives: await storeHistoryData()
RetryPostHistory(t) ==
    /\ Idle(t)
    /\ task' = [ task EXCEPT ![t] = retryFetchEntry(NewTask("postHistory", "idle")) ]
    /\ UNCHANGED << now, current, history, gov, lastSuccessAt >>

\* the rate-limit wait is over: the axios.get is issued
RetryWaitDone(t) ==
    /\ task[t].pc = "rateWait"
    /\ TimerFired(task[t])
    /\ task' = [ task EXCEPT ![t] = [ @ EXCEPT !.pc = "histFetch", !.calls = @ + 1 ] ]
    /\ UNCHANGED << now, current, history, gov, lastSuccessAt >>

\* axios.get resolves: lastFetchTime = Date.now(), fetchRetryCount = 0, and
\* storeHistoryData issues its insertMany
RetryFetchReturns(t, resp) ==
    /\ task[t].pc = "histFetch"
    /\ lastFetchTime' = now
    /\ fetchRetryCount' = 0
    /\ task' = [ task EXCEPT ![t] =
                   [ @ EXCEPT !.rows = formatHistory(resp, now), !.pc = "histInsert" ] ]
    /\ lastSuccessAt' = now
    /\ UNCHANGED << now, current, history, fetchInProgress >>

\* axios.get rejects: a 429 with fetchRetryCount < MAX_RETRIES is counted and
\* waited for; any other failure is thrown to storeHistoryData, whose catch
\* logs and returns
RetryFetchFails(t, err) ==
    /\ task[t].pc = "histFetch"
    /\ (err = "429" /\ fetchRetryCount < MAX_RETRIES) => task[t].calls < MaxCalls
    /\ IF err = "429" /\ fetchRetryCount < MAX_RETRIES
       THEN /\ fetchRetryCount' = fetchRetryCount + 1
            /\ task' = [ task EXCEPT ![t] =
                           Sleep(@, "histBackoff", backoffTime(fetchRetryCount + 1)) ]
       ELSE /\ task' = [ task EXCEPT ![t] =
                           storeHistoryData_returns([ @ EXCEPT !.ret = "swallowed" ]) ]
            /\ UNCHANGED fetchRetryCount
    /\ UNCHANGED << now, current, history, lastFetchTime, fetchInProgress, lastSuccessAt >>

\* the backoff is over: return fetchCoinGeckoData()
RetryBackoffDone(t) ==
    /\ task[t].pc = "histBackoff"
    /\ TimerFired(task[t])
    /\ task' = [ task EXCEPT ![t] = retryFetchEntry(task[t]) ]
    /\ UNCHANGED << now, current, history, gov, lastSuccessAt >>

RetryNext ==
    \/ Tick
    \/ \E t \in Tasks : RetryCronHistory(t)
    \/ \E t \in Tasks : RetryPostHistory(t)
    \/ \E t \in Tasks : RetryWaitDone(t)
    \/ \E t \in Tasks, resp \in UpstreamResponses : RetryFetchReturns(t, resp)
    \/ \E t \in Tasks, err \in UpstreamErrors : RetryFetchFails(t, err)
    \/ \E t \in Tasks : RetryBackoffDone(t)
    \/ \E t \in Tasks : HistInsertDone(t)
    \/ \E t \in Tasks : HistInsertFails(t)
    \/ \E t \in Tasks : Finish(t)

SpecRetry == RetryInit /\ [][RetryNext]_vars

\* where an invocation stands inside fetchCoinGeckoData
RetryPcs == { "rateWait", "histFetch", "histBackoff" }

\* the first upstream call of a fetch is answered 429 while no other fetch
\* is under way
FirstCallRateLimited(t) ==
    /\ RetryFetchFails(t, "429")
    /\ task[t].calls = 1
    /\ \A u \in Tasks \ { t } : task[u].pc \notin RetryPcs

\* C34: every retry sequence starts with the full retry budget: the first 429
\* of a fetch is retried, also when the sequence before it ended with the
\* budget used up.
C34_FreshRetryBudget ==
    [][ \A t \in Tasks :
          FirstCallRateLimited(t) => task'[t].pc = "histBackoff" ]_vars

\* the continuation of invocation t runs: its timer fires, upstream answers
\* its call (axios.get is given a timeout of 10 s), or its insertMany
\* completes or fails
RetryProgress(t) ==
    \/ RetryWaitDone(t)
    \/ \E resp \in UpstreamResponses : RetryFetchReturns(t, resp)
    \/ \E err \in UpstreamErrors : RetryFetchFails(t, err)
    \/ RetryBackoffDone(t)
    \/ HistInsertDone(t)
    \/ HistInsertFails(t)

SpecRetryFair ==
    /\ SpecRetry
    /\ WF_vars(Tick)
    /\ \A t \in Tasks : WF_vars(RetryProgress(t))

====
